---- MODULE Spec2Model ----
(***************************************************************************)
(* Model of the line tokenizers of newsboat's src/utils.cpp:               *)
(*   append_escapes, extract_token_quoted, tokenize_quoted, tokenize,      *)
(*   tokenize_spaced, tokenize_nl.                                         *)
(*                                                                         *)
(* A std::string is a sequence of characters, a character a TLA+ string    *)
(* (the control characters and the backtick by name).  Positions are the   *)
(* 0-based positions of the C++ code; character i of s is s[i + 1].        *)
(* std::string::size_type is modelled SizeBits wide (the lines of the      *)
(* model are far shorter than 2^SizeBits), with npos its largest value.    *)
(***************************************************************************)
EXTENDS Integers, Sequences, FiniteSets, TLC

\* ---------------------------------------------------------------- bounds
MaxLen == 4
SizeBits == 16

\* ------------------------------------------------------------ characters
DQUOTE == "\""
BSLASH == "\\"
HASH == "#"
BTICK == "BTICK"
LF == "LF"
CR == "CR"
TAB == "TAB"
NUL == "NUL"

\* characters of the input lines
Chars == {"a", " ", HASH, DQUOTE, BSLASH, "n"}

\* characters append_escapes is called with directly
EscChars == {"n", "r", "t", DQUOTE, BTICK, BSLASH, "a", " ", HASH, LF, CR, TAB, "x"}

\* the delimiter sets of the calls
DelimSets == {{}, {" "}, {" ", "a"}, {HASH}}

RECURSIVE StringsOfLen(_)
StringsOfLen(n) ==
  IF n = 0 THEN {<<>>}
  ELSE {Append(s, ch) : s \in StringsOfLen(n - 1), ch \in Chars}

Strings == UNION {StringsOfLen(n) : n \in 0..MaxLen}

\* ------------------------------------------------- std::string primitives
npos == 2^SizeBits - 1

\* unsigned subtraction of two size_type values
SizeSub(a, b) == (a - b) % (npos + 1)

Min(a, b) == IF a < b THEN a ELSE b

find_first_not_of_skips_from(s, d, from) ==
  LET hits == {i \in 0..(Len(s) - 1) : i > from /\ s[i + 1] \notin d}
  IN IF hits = {} THEN npos ELSE CHOOSE i \in hits : \A j \in hits : i <= j

\* s.find_first_not_of(d, from)
find_first_not_of(s, d, from) ==
  LET hits == {i \in 0..(Len(s) - 1) : i >= from /\ s[i + 1] \notin d}
  IN IF hits = {} THEN npos ELSE CHOOSE i \in hits : \A j \in hits : i <= j

\* s.find_first_of(d, from)
find_first_of(s, d, from) ==
  LET hits == {i \in 0..(Len(s) - 1) : i >= from /\ s[i + 1] \in d}
  IN IF hits = {} THEN npos ELSE CHOOSE i \in hits : \A j \in hits : i <= j

\* s.substr(start, count) throws std::out_of_range when start > s.size()
substr_throws(s, start) == start > Len(s)

\* s.substr(start, count), for start <= s.size()
substr(s, start, count) ==
  SubSeq(s, start + 1, start + Min(count, Len(s) - start))

\* s[i]: s[s.size()] is the terminating NUL
char_at(s, i) == IF i < Len(s) THEN s[i + 1] ELSE NUL

\* n copies of std::string("\n")
newlines(n) == [k \in 1..n |-> <<LF>>]

\* ---------------------------------------------------------- append_escapes
append_escapes_unescapes_backtick(acc, ch) ==
  CASE ch = "n" -> acc \o <<LF>>
    [] ch = "r" -> acc \o <<CR>>
    [] ch = "t" -> acc \o <<TAB>>
    [] ch = DQUOTE -> acc \o <<DQUOTE>>
    [] ch = BSLASH -> acc \o <<BSLASH>>
    [] OTHER -> Append(acc, ch)

append_escapes(acc, ch) ==
  CASE ch = "n" -> acc \o <<LF>>
    [] ch = "r" -> acc \o <<CR>>
    [] ch = "t" -> acc \o <<TAB>>
    [] ch = DQUOTE -> acc \o <<DQUOTE>>
    [] ch = BTICK -> acc \o <<BSLASH, BTICK>>
    [] ch = BSLASH -> acc \o <<BSLASH>>
    [] OTHER -> Append(acc, ch)

\* ---------------------------------------------------- extract_token_quoted
is_comment_never(ch) == FALSE

\* the comment test of extract_token_quoted
is_comment(ch) == ch = HASH

comment_result_empty_token == [str |-> <<>>, token |-> << <<>> >>, fault |-> FALSE]

\* what extract_token_quoted does on a comment: str = ""; return {};
comment_result == [str |-> <<>>, token |-> <<>>, fault |-> FALSE]

after_closing_quote_stays(p) == p

\* where the scan of a quoted token stops on the closing quote: ++pos; break;
after_closing_quote(p) == p + 1

escape_has_char_unchecked(s, p) == TRUE

\* the test that a character follows the backslash, at position p
escape_has_char(s, p) == p < Len(s)

rest_after_unquoted_keeps_last(s, end_of_token) ==
  IF end_of_token = npos THEN s ELSE substr(s, end_of_token, npos)

\* the cursor after an unquoted token that ends at end_of_token
rest_after_unquoted(s, end_of_token) ==
  IF end_of_token = npos THEN <<>> ELSE substr(s, end_of_token, npos)

\* the while loop over a quoted token: the final pos and the token
RECURSIVE quoted_scan(_, _, _)
quoted_scan(s, p, token) ==
  IF ~(p < Len(s)) THEN [pos |-> p, token |-> token]
  ELSE IF char_at(s, p) = DQUOTE
    THEN [pos |-> after_closing_quote(p), token |-> token]
  ELSE IF char_at(s, p) = BSLASH
    THEN IF escape_has_char(s, p + 1)
           THEN quoted_scan(s, p + 2, append_escapes(token, char_at(s, p + 1)))
           ELSE quoted_scan(s, p + 1, token)
  ELSE quoted_scan(s, p + 1, Append(token, char_at(s, p)))

unquoted_token_takes_delimiter(s, d) ==
  LET end_of_token == find_first_of(s, d, 0)
  IN [str |-> rest_after_unquoted(s, end_of_token),
      token |-> <<substr(s, 0, IF end_of_token = npos THEN npos
                               ELSE end_of_token + 1)>>,
      fault |-> FALSE]

\* the unquoted branch
unquoted_token(s, d) ==
  LET end_of_token == find_first_of(s, d, 0)
  IN [str |-> rest_after_unquoted(s, end_of_token),
      token |-> <<substr(s, 0, end_of_token)>>,
      fault |-> FALSE]

\* the quoted branch
quoted_token(s) ==
  LET r == quoted_scan(s, 1, <<>>)
  IN IF substr_throws(s, r.pos)
       THEN [str |-> s, token |-> <<>>, fault |-> TRUE]
       ELSE [str |-> substr(s, r.pos, npos), token |-> <<r.token>>,
             fault |-> FALSE]

\* extract_token_quoted(str, delimiters): the cursor it leaves in str, the
\* optional it returns (<<>> is nullopt, <<t>> holds t), and whether it threw
extract_token_quoted(s, d) ==
  LET first_non_delimiter == find_first_not_of(s, d, 0)
  IN IF first_non_delimiter = npos
       THEN [str |-> <<>>, token |-> <<>>, fault |-> FALSE]
     ELSE LET s1 == substr(s, first_non_delimiter, npos)
          IN IF is_comment(char_at(s1, 0))
               THEN comment_result
             ELSE IF char_at(s1, 0) = DQUOTE
               THEN quoted_token(s1)
             ELSE unquoted_token(s1, d)

\* --------------------------------------------------------- tokenize_quoted
RECURSIVE tokenize_quoted_while(_, _, _)
tokenize_quoted_while(rem, d, toks) ==
  IF rem = <<>> THEN toks
  ELSE LET r == extract_token_quoted(rem, d)
       IN IF r.fault THEN toks
          ELSE tokenize_quoted_while(r.str, d, toks \o r.token)

tokenize_quoted(s, d) == tokenize_quoted_while(s, d, <<>>)

\* ---------------------------------------------------------------- tokenize
loop_cond_pos_only(lp, p) == npos # p

\* the condition of the while loops of tokenize, tokenize_spaced, tokenize_nl
loop_cond(lp, p) == npos # p \/ npos # lp

\* the two positions before the loop
first_positions(s, d) ==
  LET lp == find_first_not_of(s, d, 0)
  IN [last_pos |-> lp, pos |-> find_first_of(s, d, lp)]

\* one iteration of the loop of tokenize
tokenize_step(s, d, st) ==
  IF substr_throws(s, st.last_pos)
    THEN [st EXCEPT !.fault = TRUE]
  ELSE LET lp == find_first_not_of(s, d, st.pos)
       IN [tokens |-> Append(st.tokens,
                        substr(s, st.last_pos, SizeSub(st.pos, st.last_pos))),
           last_pos |-> lp,
           pos |-> find_first_of(s, d, lp),
           fault |-> FALSE]

tokenize_init(s, d) ==
  LET fp == first_positions(s, d)
  IN [tokens |-> <<>>, last_pos |-> fp.last_pos, pos |-> fp.pos,
      fault |-> FALSE]

RECURSIVE tokenize_while(_, _, _)
tokenize_while(s, d, st) ==
  IF st.fault \/ ~loop_cond(st.last_pos, st.pos) THEN st
  ELSE tokenize_while(s, d, tokenize_step(s, d, st))

tokenize(s, d) == tokenize_while(s, d, tokenize_init(s, d)).tokens

\* --------------------------------------------------------- tokenize_spaced
spaced_has_run_inner_only(lp, p) == lp > p /\ lp # npos

\* whether a delimiter run follows the token just pushed: last_pos > pos
spaced_has_run(lp, p) == lp > p

tokenize_spaced_init(s, d) ==
  LET fp == first_positions(s, d)
  IN [tokens |-> IF fp.last_pos # 0 THEN <<substr(s, 0, fp.last_pos)>>
                 ELSE <<>>,
      last_pos |-> fp.last_pos, pos |-> fp.pos, fault |-> FALSE]

tokenize_spaced_step(s, d, st) ==
  IF substr_throws(s, st.last_pos)
    THEN [st EXCEPT !.fault = TRUE]
  ELSE LET t1 == Append(st.tokens,
                   substr(s, st.last_pos, SizeSub(st.pos, st.last_pos)))
           lp == find_first_not_of(s, d, st.pos)
       IN IF spaced_has_run(lp, st.pos)
            THEN IF substr_throws(s, st.pos)
                   THEN [tokens |-> t1, last_pos |-> lp, pos |-> st.pos,
                         fault |-> TRUE]
                   ELSE [tokens |-> Append(t1,
                                      substr(s, st.pos, SizeSub(lp, st.pos))),
                         last_pos |-> lp,
                         pos |-> find_first_of(s, d, lp),
                         fault |-> FALSE]
            ELSE [tokens |-> t1, last_pos |-> lp,
                  pos |-> find_first_of(s, d, lp), fault |-> FALSE]

RECURSIVE tokenize_spaced_while(_, _, _)
tokenize_spaced_while(s, d, st) ==
  IF st.fault \/ ~loop_cond(st.last_pos, st.pos) THEN st
  ELSE tokenize_spaced_while(s, d, tokenize_spaced_step(s, d, st))

tokenize_spaced(s, d) ==
  tokenize_spaced_while(s, d, tokenize_spaced_init(s, d)).tokens

\* ------------------------------------------------------------- tokenize_nl
tokenize_nl_init(s, d) ==
  LET fp == first_positions(s, d)
  IN [tokens |-> IF fp.last_pos # npos THEN newlines(fp.last_pos)
                 ELSE newlines(Len(s)),
      last_pos |-> fp.last_pos, pos |-> fp.pos, fault |-> FALSE]

nl_count_one_per_run(lp, p) ==
  IF lp # npos /\ p # npos THEN 1 ELSE 0

\* the number of iterations of the for loop inside the while loop
nl_count(lp, p) ==
  IF lp # npos /\ p # npos THEN SizeSub(lp, p) ELSE 0

tokenize_nl_step(s, d, st) ==
  IF substr_throws(s, st.last_pos)
    THEN [st EXCEPT !.fault = TRUE]
  ELSE LET t1 == Append(st.tokens,
                   substr(s, st.last_pos, SizeSub(st.pos, st.last_pos)))
           lp == find_first_not_of(s, d, st.pos)
       IN [tokens |-> t1 \o newlines(nl_count(lp, st.pos)),
           last_pos |-> lp,
           pos |-> find_first_of(s, d, lp),
           fault |-> FALSE]

RECURSIVE tokenize_nl_while(_, _, _)
tokenize_nl_while(s, d, st) ==
  IF st.fault \/ ~loop_cond(st.last_pos, st.pos) THEN st
  ELSE tokenize_nl_while(s, d, tokenize_nl_step(s, d, st))

tokenize_nl(s, d) == tokenize_nl_while(s, d, tokenize_nl_init(s, d)).tokens

\* ------------------------------------------------------------------ state
VARIABLES
  op,          \* the function called
  pc,          \* "idle", "loop" (at a loop head), "done" (returned), "error"
  str,         \* the line (for append_escapes: the accumulator)
  delimiters,  \* the delimiter set
  c,           \* the character append_escapes is called with
  tokens,      \* the token vector being built
  remaining,   \* the cursor of tokenize_quoted / extract_token_quoted
  last_pos,
  pos,
  arg,         \* the cursor on entry of the last extract_token_quoted call
  ret,         \* what that call returned: <<>> is nullopt, <<t>> holds t
  ncalls       \* the number of extract_token_quoted calls made

vars == <<op, pc, str, delimiters, c, tokens, remaining, last_pos, pos,
          arg, ret, ncalls>>

Init ==
  /\ op = "none"
  /\ pc = "idle"
  /\ str \in Strings
  /\ delimiters \in DelimSets
  /\ c = NUL
  /\ tokens = <<>>
  /\ remaining = <<>>
  /\ last_pos = 0
  /\ pos = 0
  /\ arg = <<>>
  /\ ret = <<>>
  /\ ncalls = 0

\* the local state of the three position-driven tokenizers
local_state == [tokens |-> tokens, last_pos |-> last_pos, pos |-> pos,
                fault |-> FALSE]

\* enter one of tokenize, tokenize_spaced, tokenize_nl
enter(name, st) ==
  /\ pc = "idle"
  /\ op' = name
  /\ pc' = "loop"
  /\ tokens' = st.tokens
  /\ last_pos' = st.last_pos
  /\ pos' = st.pos
  /\ UNCHANGED <<str, delimiters, c, remaining, arg, ret, ncalls>>

\* one iteration of the while loop of one of them
iterate(name, st) ==
  /\ pc = "loop"
  /\ op = name
  /\ loop_cond(last_pos, pos)
  /\ pc' = IF st.fault THEN "error" ELSE "loop"
  /\ tokens' = st.tokens
  /\ last_pos' = st.last_pos
  /\ pos' = st.pos
  /\ UNCHANGED <<op, str, delimiters, c, remaining, arg, ret, ncalls>>

\* the loop ends and the function returns tokens
leave(name) ==
  /\ pc = "loop"
  /\ op = name
  /\ ~loop_cond(last_pos, pos)
  /\ pc' = "done"
  /\ UNCHANGED <<op, str, delimiters, c, tokens, remaining, last_pos, pos,
                 arg, ret, ncalls>>

tokenize_call == enter("tokenize", tokenize_init(str, delimiters))
tokenize_loop == iterate("tokenize", tokenize_step(str, delimiters, local_state))
tokenize_return == leave("tokenize")

tokenize_spaced_call ==
  enter("tokenize_spaced", tokenize_spaced_init(str, delimiters))
tokenize_spaced_loop ==
  iterate("tokenize_spaced", tokenize_spaced_step(str, delimiters, local_state))
tokenize_spaced_return == leave("tokenize_spaced")

tokenize_nl_call == enter("tokenize_nl", tokenize_nl_init(str, delimiters))
tokenize_nl_loop ==
  iterate("tokenize_nl", tokenize_nl_step(str, delimiters, local_state))
tokenize_nl_return == leave("tokenize_nl")

\* tokenize_quoted: remaining = str
tokenize_quoted_call ==
  /\ pc = "idle"
  /\ op' = "tokenize_quoted"
  /\ pc' = "loop"
  /\ remaining' = str
  /\ tokens' = <<>>
  /\ UNCHANGED <<str, delimiters, c, last_pos, pos, arg, ret, ncalls>>

\* one iteration of its loop: one call of extract_token_quoted
tokenize_quoted_loop ==
  /\ pc = "loop"
  /\ op = "tokenize_quoted"
  /\ remaining # <<>>
  /\ LET r == extract_token_quoted(remaining, delimiters)
     IN /\ pc' = IF r.fault THEN "error" ELSE "loop"
        /\ remaining' = r.str
        /\ tokens' = tokens \o r.token
        /\ arg' = remaining
        /\ ret' = r.token
  /\ ncalls' = ncalls + 1
  /\ UNCHANGED <<op, str, delimiters, c, last_pos, pos>>

tokenize_quoted_return ==
  /\ pc = "loop"
  /\ op = "tokenize_quoted"
  /\ remaining = <<>>
  /\ pc' = "done"
  /\ UNCHANGED <<op, str, delimiters, c, tokens, remaining, last_pos, pos,
                 arg, ret, ncalls>>

\* a direct call of extract_token_quoted on the cursor str
extract_token_quoted_call ==
  /\ pc = "idle"
  /\ op' = "extract_token_quoted"
  /\ LET r == extract_token_quoted(str, delimiters)
     IN /\ pc' = IF r.fault THEN "error" ELSE "done"
        /\ remaining' = r.str
        /\ ret' = r.token
  /\ arg' = str
  /\ ncalls' = 1
  /\ UNCHANGED <<str, delimiters, c, tokens, last_pos, pos>>

\* a direct call of append_escapes on the accumulator str
append_escapes_call ==
  /\ pc = "idle"
  /\ op' = "append_escapes"
  /\ pc' = "done"
  /\ \E ch \in EscChars :
       /\ c' = ch
       /\ remaining' = append_escapes(str, ch)
  /\ UNCHANGED <<str, delimiters, tokens, last_pos, pos, arg, ret, ncalls>>

Next ==
  \/ tokenize_call
  \/ tokenize_loop
  \/ tokenize_return
  \/ tokenize_spaced_call
  \/ tokenize_spaced_loop
  \/ tokenize_spaced_return
  \/ tokenize_nl_call
  \/ tokenize_nl_loop
  \/ tokenize_nl_return
  \/ tokenize_quoted_call
  \/ tokenize_quoted_loop
  \/ tokenize_quoted_return
  \/ extract_token_quoted_call
  \/ append_escapes_call

Spec == Init /\ [][Next]_vars

TypeOK ==
  /\ pc \in {"idle", "loop", "done", "error"}
  /\ str \in Strings
  /\ delimiters \in DelimSets

\* ===================================================== checked properties
returned(name) == pc = "done" /\ op = name

RECURSIVE Concat(_)
Concat(seqs) ==
  IF seqs = <<>> THEN <<>> ELSE Head(seqs) \o Concat(Tail(seqs))

IsDelim(ch) == ch \in delimiters

\* the maximal runs of non-delimiter characters of s from position i on,
\* cur being the run under way
RECURSIVE MaximalRuns(_, _, _, _)
MaximalRuns(s, d, i, cur) ==
  LET closed == IF cur = <<>> THEN <<>> ELSE <<cur>>
  IN IF i > Len(s) THEN closed
     ELSE IF s[i] \in d THEN closed \o MaximalRuns(s, d, i + 1, <<>>)
     ELSE MaximalRuns(s, d, i + 1, Append(cur, s[i]))

\* C1: the tokens tokenize_spaced returns, concatenated in order, are the
\* input line: nothing is lost, duplicated or reordered.
C1_SpacedLossless ==
  returned("tokenize_spaced") => Concat(tokens) = str

\* a line with a leading and a trailing delimiter run was split into three
C1_Witness ==
  /\ returned("tokenize_spaced")
  /\ str = <<" ", "n", " ", " ">>
  /\ delimiters = {" "}
  /\ tokens = << <<" ">>, <<"n">>, <<" ", " ">> >>

\* C2: tokenize_nl returns as many one-newline tokens as the line has
\* delimiter characters, wherever the delimiter runs are.
C2_NewlinePerDelimiter ==
  returned("tokenize_nl") =>
    Cardinality({i \in DOMAIN tokens : tokens[i] = <<LF>>})
      = Cardinality({i \in DOMAIN str : IsDelim(str[i])})

\* C3: tokenize returns exactly the maximal runs of non-delimiter characters,
\* left to right: no token is empty, none holds a delimiter, and the result
\* is empty exactly when the line is empty or all delimiters.
C3_PlainRuns ==
  returned("tokenize") =>
    /\ tokens = MaximalRuns(str, delimiters, 1, <<>>)
    /\ \A i \in DOMAIN tokens :
         /\ tokens[i] # <<>>
         /\ \A k \in DOMAIN tokens[i] : ~IsDelim(tokens[i][k])
    /\ (tokens = <<>>) <=> (\A k \in DOMAIN str : IsDelim(str[k]))

\* delimiter runs before, between and after two tokens collapsed
C3_Witness ==
  /\ returned("tokenize")
  /\ str = <<" ", "n", " ", "#">>
  /\ delimiters = {" ", "a"}
  /\ tokens = << <<"n">>, <<"#">> >>

\* ---------------------------------------------- claims on the quoted family
\* s without its leading delimiter characters
RECURSIVE DropLeading(_, _)
DropLeading(s, d) ==
  IF s = <<>> \/ Head(s) \notin d THEN s ELSE DropLeading(Tail(s), d)

\* an extract_token_quoted call has returned: arg, ret and remaining are its
\* argument, its result and the cursor it left
extracted ==
  /\ ncalls > 0
  /\ \/ op = "tokenize_quoted" /\ pc \in {"loop", "done"}
     \/ op = "extract_token_quoted" /\ pc = "done"

\* the 1-based position in str of the first character of the cursor cur
PosOf(cur) == Len(str) - Len(cur) + 1

\* the positions of str that tokenize_quoted consumes as part of a
\* double-quoted token, the cursor rem starting at position base
RECURSIVE QuotedPositions(_, _, _)
QuotedPositions(rem, d, base) ==
  IF rem = <<>> THEN {}
  ELSE LET r == extract_token_quoted(rem, d)
           f == DropLeading(rem, d)
           from == base + (Len(rem) - Len(f))
           next == base + (Len(rem) - Len(r.str))
       IN IF r.fault THEN {}
          ELSE (IF f # <<>> /\ Head(f) = DQUOTE THEN from..(next - 1) ELSE {})
                 \cup QuotedPositions(r.str, d, next)

\* the '#' at position p of str is not inside a double-quoted token
UnquotedHash(p) ==
  /\ p \in DOMAIN str
  /\ str[p] = HASH
  /\ p \notin QuotedPositions(str, delimiters, 1)

\* C4 as stated: the tokens of a line with a '#' outside every double-quoted
\* token are the tokens of the text before that '#'.
C4_AnyUnquotedHashIsComment ==
  returned("tokenize_quoted") =>
    \A p \in DOMAIN str :
      UnquotedHash(p) =>
        tokens = tokenize_quoted(SubSeq(str, 1, p - 1), delimiters)

\* the extractor call that just returned found '#' as the first
\* non-delimiter character of its cursor
HashTokenInitial ==
  /\ op = "tokenize_quoted"
  /\ pc \in {"loop", "done"}
  /\ ncalls > 0
  /\ DropLeading(arg, delimiters) # <<>>
  /\ Head(DropLeading(arg, delimiters)) = HASH

\* C4 amended: a '#' that is the first non-delimiter character of the cursor
\* when a token is to be extracted starts a comment: the tokens are then the
\* tokens of the text before that '#', the cursor is empty, and the tokens
\* stay as they are.
C4_TokenInitialHashIsComment ==
  HashTokenInitial =>
    /\ tokens = tokenize_quoted(
                  SubSeq(str, 1, PosOf(DropLeading(arg, delimiters)) - 1),
                  delimiters)
    /\ remaining = <<>>

\* a comment after a token was thrown away, the quote inside it included
C4_Witness ==
  /\ returned("tokenize_quoted")
  /\ str = <<"n", " ", HASH, DQUOTE>>
  /\ delimiters = {" "}
  /\ HashTokenInitial
  /\ tokens = << <<"n">> >>

NoDelimNoQuote(t) ==
  \A k \in DOMAIN t : ~IsDelim(t[k]) /\ t[k] # DQUOTE

\* C5 as stated: tokenize of a string without delimiter and double quote is
\* the one-element sequence of that string.
C5_PlainIdempotent ==
  /\ (returned("tokenize") /\ NoDelimNoQuote(str)) => tokens = <<str>>
  /\ pc = "done" =>
       \A i \in DOMAIN tokens :
         NoDelimNoQuote(tokens[i]) =>
           tokenize(tokens[i], delimiters) = <<tokens[i]>>

\* C5 amended: the same for every non-empty such string.
C5_PlainIdempotentNonEmpty ==
  /\ (returned("tokenize") /\ NoDelimNoQuote(str) /\ str # <<>>)
       => tokens = <<str>>
  /\ pc = "done" =>
       \A i \in DOMAIN tokens :
         (NoDelimNoQuote(tokens[i]) /\ tokens[i] # <<>>) =>
           tokenize(tokens[i], delimiters) = <<tokens[i]>>

\* a token with '#' and a backslash came back as it was
C5_Witness ==
  /\ returned("tokenize")
  /\ str = <<HASH, "n", BSLASH>>
  /\ delimiters = {" ", "a"}
  /\ tokens = <<str>>

IsSuffix(t, s) ==
  Len(t) <= Len(s) /\ t = SubSeq(s, Len(s) - Len(t) + 1, Len(s))

\* the step is a call of extract_token_quoted
ExtractorCall == ncalls' = ncalls + 1

\* C6: a call of extract_token_quoted on a non-empty cursor leaves a strictly
\* shorter suffix of it, a call on the empty cursor leaves it empty; so the
\* calls made plus the characters left never exceed length(str), every step
\* of the loop of tokenize_quoted is a call or the return, and the loop ends
\* after at most length(str) calls.
C6_CursorShrinks ==
  /\ [][ExtractorCall =>
          /\ IsSuffix(remaining', arg')
          /\ IF arg' = <<>> THEN remaining' = <<>>
             ELSE Len(remaining') < Len(arg')]_vars
  /\ [](op = "tokenize_quoted" => ncalls + Len(remaining) <= Len(str))
  /\ [][(op = "tokenize_quoted" /\ pc = "loop") =>
          (ExtractorCall \/ pc' = "done")]_vars

\* a line was tokenized with as many calls as it has characters
C6_Witness ==
  /\ returned("tokenize_quoted")
  /\ str = <<"n", " ">>
  /\ delimiters = {" "}
  /\ ncalls = Len(str)
  /\ tokens = << <<"n">> >>

\* the position-driven tokenizers before a loop iteration
at_iteration ==
  /\ pc = "loop"
  /\ op \in {"tokenize", "tokenize_spaced", "tokenize_nl"}
  /\ loop_cond(last_pos, pos)

\* C7: no call raises: no substring starts beyond the end of its string and
\* the start position of each iteration is a position of the line, not npos.
C7_Total ==
  /\ pc # "error"
  /\ at_iteration => last_pos <= Len(str)
  /\ (at_iteration /\ pos # npos) => (last_pos < pos /\ pos < Len(str))

\* an unterminated quote that ends in a lone backslash was tokenized
C7_Witness ==
  /\ returned("tokenize_quoted")
  /\ str = <<" ", DQUOTE, "a", BSLASH>>
  /\ delimiters = {" "}
  /\ tokens = << <<"a">> >>

\* what a backslash followed by ch stands for in a quoted token
Expansion(ch) ==
  IF ch = "n" THEN <<LF>>
  ELSE IF ch = "r" THEN <<CR>>
  ELSE IF ch = "t" THEN <<TAB>>
  ELSE IF ch = BTICK THEN <<BSLASH, BTICK>>
  ELSE <<ch>>

\* C8: append_escapes appends the expansion of its character and nothing
\* else; a quoted token of a backslash and a character is that expansion.
C8_EscapeMapping ==
  /\ returned("append_escapes") => remaining = str \o Expansion(c)
  /\ (/\ returned("extract_token_quoted")
      /\ Len(str) = 3
      /\ str[1] = DQUOTE
      /\ str[2] = BSLASH
      /\ ~IsDelim(DQUOTE)) => ret = <<Expansion(str[3])>>

\* the escaped backtick stayed escaped
C8_Witness ==
  /\ returned("append_escapes")
  /\ c = BTICK
  /\ str = <<"a">>
  /\ remaining = <<"a", BSLASH, BTICK>>

\* C9: extract_token_quoted returns no token exactly when the cursor without
\* its leading delimiters is empty or starts with '#', and then leaves the
\* cursor empty and tokenize_quoted adds no token; otherwise it returns one
\* token, which, unless quoted, does not start with '#'.
C9_NoTokenIffExhaustedOrComment ==
  /\ [](extracted =>
         LET f == DropLeading(arg, delimiters)
         IN /\ (ret = <<>>) <=> (f = <<>> \/ Head(f) = HASH)
            /\ ret = <<>> => remaining = <<>>
            /\ Len(ret) <= 1
            /\ (ret # <<>> /\ Head(f) # DQUOTE) =>
                 (ret[1] # <<>> /\ Head(ret[1]) # HASH))
  /\ [][(extracted /\ op = "tokenize_quoted" /\ ret = <<>>) =>
          tokens' = tokens]_vars

\* the empty quoted token was returned, then the comment gave no token
C9_Witness ==
  /\ returned("tokenize_quoted")
  /\ str = <<DQUOTE, DQUOTE, " ", HASH>>
  /\ delimiters = {" "}
  /\ tokens = << <<>> >>
  /\ ret = <<>>

\* the position in f of the first unescaped double quote from i on, 0 if none
RECURSIVE ClosingQuote(_, _)
ClosingQuote(f, i) ==
  IF i > Len(f) THEN 0
  ELSE IF f[i] = BSLASH THEN ClosingQuote(f, i + 2)
  ELSE IF f[i] = DQUOTE THEN i
  ELSE ClosingQuote(f, i + 1)

\* t with its escapes decoded, a lone last backslash dropped
RECURSIVE Decode(_)
Decode(t) ==
  IF t = <<>> THEN <<>>
  ELSE IF Head(t) = BSLASH
    THEN IF Len(t) = 1 THEN <<>>
         ELSE Expansion(t[2]) \o Decode(SubSeq(t, 3, Len(t)))
  ELSE <<Head(t)>> \o Decode(Tail(t))

\* C10: on a cursor whose first non-delimiter character is a double quote,
\* extract_token_quoted returns the decoded text up to the first unescaped
\* double quote and leaves the cursor right after it; without such a quote
\* the token is the decoded rest and the cursor is empty.
C10_QuotedToken ==
  extracted =>
    LET f == DropLeading(arg, delimiters)
        q == ClosingQuote(f, 2)
    IN (f # <<>> /\ Head(f) = DQUOTE) =>
         IF q # 0
           THEN /\ ret = <<Decode(SubSeq(f, 2, q - 1))>>
                /\ remaining = SubSeq(f, q + 1, Len(f))
           ELSE /\ ret = <<Decode(SubSeq(f, 2, Len(f)))>>
                /\ remaining = <<>>

\* a quoted token that holds a delimiter, text left behind the closing quote
C10_Witness ==
  /\ returned("extract_token_quoted")
  /\ str = <<DQUOTE, " ", DQUOTE, HASH>>
  /\ delimiters = {" "}
  /\ ret = << <<" ">> >>
  /\ remaining = <<HASH>>

\* --------------------------------------- claims relating the tokenizers
NoQuoteNoHash(s) == \A k \in DOMAIN s : s[k] # DQUOTE /\ s[k] # HASH

\* C11: on a line without double quote and without '#', tokenize_quoted and
\* tokenize return the same tokens in the same order, backslashes unchanged.
C11_QuotedAgreesWithPlain ==
  /\ (returned("tokenize_quoted") /\ NoQuoteNoHash(str)) =>
       /\ tokens = tokenize(str, delimiters)
       /\ tokens = MaximalRuns(str, delimiters, 1, <<>>)
  /\ (returned("tokenize") /\ NoQuoteNoHash(str)) =>
       tokens = tokenize_quoted(str, delimiters)

\* two tokens, the second with a backslash that stayed as it was
C11_Witness ==
  /\ returned("tokenize_quoted")
  /\ str = <<"a", " ", BSLASH, "n">>
  /\ delimiters = {" "}
  /\ tokens = << <<"a">>, <<BSLASH, "n">> >>
  /\ tokens = tokenize(str, delimiters)

\* the position of the last non-delimiter character of s, 0 if there is none
LastNonDelim(s, d) ==
  LET nd == {k \in DOMAIN s : s[k] \notin d}
  IN IF nd = {} THEN 0 ELSE CHOOSE k \in nd : \A j \in nd : j <= k

\* s from position i on with every delimiter character of a leading or
\* interior run (and of a line of delimiters only) turned into a newline
\* token and every maximal non-delimiter run kept as one token, cur being
\* the run under way
RECURSIVE NewlineExpanded(_, _, _, _)
NewlineExpanded(s, d, i, cur) ==
  LET closed == IF cur = <<>> THEN <<>> ELSE <<cur>>
      last == LastNonDelim(s, d)
  IN IF i > Len(s) THEN closed
     ELSE IF s[i] \in d
       THEN closed
              \o (IF last = 0 \/ i < last THEN << <<LF>> >> ELSE <<>>)
              \o NewlineExpanded(s, d, i + 1, <<>>)
     ELSE NewlineExpanded(s, d, i + 1, Append(cur, s[i]))

IsNewlineToken(t) == t = <<LF>>

IsPlainToken(t) == t # <<LF>>

\* C12: every token of tokenize_nl is a newline token put in for a delimiter
\* character or a maximal non-delimiter run; without the newline tokens the
\* result is that of tokenize; a leading or interior delimiter run of length
\* k gives k consecutive newline tokens where the run is.
C12_NewlineExpansion ==
  returned("tokenize_nl") =>
    /\ tokens = NewlineExpanded(str, delimiters, 1, <<>>)
    /\ SelectSeq(tokens, IsPlainToken) = tokenize(str, delimiters)
    /\ \A i \in DOMAIN tokens :
         \/ IsNewlineToken(tokens[i])
         \/ /\ tokens[i] # <<>>
            /\ \A k \in DOMAIN tokens[i] :
                 ~IsDelim(tokens[i][k]) /\ tokens[i][k] # LF

\* an interior run of two different delimiter characters gave two newlines
C12_Witness ==
  /\ returned("tokenize_nl")
  /\ str = <<"n", " ", "a", HASH>>
  /\ delimiters = {" ", "a"}
  /\ tokens = << <<"n">>, <<LF>>, <<LF>>, <<HASH>> >>

\* the maximal delimiter runs and the maximal non-delimiter runs of s from
\* position i on, in order, cur being the run under way
RECURSIVE AllRuns(_, _, _, _)
AllRuns(s, d, i, cur) ==
  LET closed == IF cur = <<>> THEN <<>> ELSE <<cur>>
  IN IF i > Len(s) THEN closed
     ELSE IF cur # <<>> /\ ((s[i] \in d) # (cur[1] \in d))
       THEN closed \o AllRuns(s, d, i + 1, <<s[i]>>)
     ELSE AllRuns(s, d, i + 1, Append(cur, s[i]))

IsDelimRun(t) == t # <<>> /\ \A k \in DOMAIN t : IsDelim(t[k])

IsTextRun(t) == t # <<>> /\ \A k \in DOMAIN t : ~IsDelim(t[k])

\* C13: tokenize_spaced returns the maximal delimiter runs and the maximal
\* non-delimiter runs of the line in order: no token is empty, each is of one
\* kind, neighbours are of different kinds, the first is a delimiter run only
\* when the line starts with a delimiter, and without the delimiter runs the
\* result is that of tokenize.
C13_SpacedRuns ==
  returned("tokenize_spaced") =>
    /\ tokens = AllRuns(str, delimiters, 1, <<>>)
    /\ \A i \in DOMAIN tokens : IsDelimRun(tokens[i]) \/ IsTextRun(tokens[i])
    /\ \A i \in DOMAIN tokens :
         i > 1 => (IsDelimRun(tokens[i]) # IsDelimRun(tokens[i - 1]))
    /\ (tokens # <<>> /\ IsDelimRun(tokens[1])) =>
         (str # <<>> /\ IsDelim(str[1]))
    /\ SelectSeq(tokens, IsTextRun) = tokenize(str, delimiters)

\* C13 on the lines that are not empty
C13_SpacedRunsNonEmptyLine ==
  str # <<>> => C13_SpacedRuns

====
